---- MODULE Spec2Model ----
(***************************************************************************)
(* Model of the TikTok candidate ranking of src/part2_find_tiktok.py       *)
(* (calculate_raw_score, calculate_confidence, process_deputy, main) and   *)
(* of the bio analysis of src/analyze_tiktok_bio.py.                       *)
(*                                                                         *)
(* Floating-point values are finite-precision numbers: a float x is the    *)
(* integer x * ONE, and every arithmetic operation that produces a float   *)
(* rounds its exact result to the nearest representable value, ties to     *)
(* even, as IEEE-754 does (with a precision of 1/ONE instead of 2^-53).    *)
(***************************************************************************)
EXTENDS Integers, Sequences, FiniteSets, TLC

VARIABLES pc, deputy, unique_usernames, idx, candidates, candidates_with_subs,
          sorted_candidates, scores, confidences, best_candidate, top_3,
          result, bio_text, analysis, lookups, user_info,
          db, results_file, response

\* the deputies table, the file tiktok_results.json and the answer to the
\* last request
dbVars == <<db, results_file, response>>

vars == <<pc, deputy, unique_usernames, idx, candidates, candidates_with_subs,
          sorted_candidates, scores, confidences, best_candidate, top_3,
          result, bio_text, analysis, lookups, user_info, dbVars>>

\* a file that does not exist
NoFile == [exists |-> FALSE, parsable |-> FALSE, data |-> << >>]

\* the state of a run that uses no database: no table row, no file, no request
NoDatabase ==
    /\ db = << >>
    /\ results_file = NoFile
    /\ response = << >>

(* ------------------------------ bounds ---------------------------------- *)

\* longest score array handed to calculate_confidence in SpecConf
MaxScores == 3

\* longest score array handed to calculate_confidence in SpecConfLong
MaxLongScores == 4

\* total number of identifiers in the three source lists of one deputy
MaxIds == 3

\* the same in SpecMain
MaxMainIds == 2

\* number of words of a bio text
MaxTokens == 3

\* number of identifiers of the one source list of a deputy in SpecWide
MaxWideIds == 4

(* ------------------------- finite-precision floats ---------------------- *)

\* the float 1.0
ONE == 100 * 100

Min(a, b) == IF a <= b THEN a ELSE b

\* n / d rounded to the nearest integer, ties to even (n >= 0, d > 0)
RoundDiv(n, d) ==
    LET q == n \div d
        r == n % d
    IN  IF 2 * r < d THEN q
        ELSE IF 2 * r > d THEN q + 1
        ELSE IF q % 2 = 0 THEN q ELSE q + 1

\* float * float
FMul(a, b) == RoundDiv(a * b, ONE)

\* 1.0 / (1.0 + np.exp(-(s - 60) / 25)) for s = 0 .. 170, rounded to 1/ONE
SigmoidTable ==
   << 832,  863,  895,  928,  962,  998, 1034, 1072, 1111, 1151,
     1192, 1235, 1279, 1324, 1371, 1419, 1468, 1519, 1571, 1625,
     1680, 1736, 1795, 1854, 1915, 1978, 2042, 2108, 2176, 2244,
     2315, 2387, 2460, 2535, 2611, 2689, 2769, 2850, 2932, 3015,
     3100, 3186, 3274, 3363, 3452, 3543, 3635, 3729, 3823, 3917,
     4013, 4110, 4207, 4305, 4403, 4502, 4601, 4700, 4800, 4900,
     5000, 5100, 5200, 5300, 5399, 5498, 5597, 5695, 5793, 5890,
     5987, 6083, 6177, 6271, 6365, 6457, 6548, 6637, 6726, 6814,
     6900, 6985, 7068, 7150, 7231, 7311, 7389, 7465, 7540, 7613,
     7685, 7756, 7824, 7892, 7958, 8022, 8085, 8146, 8205, 8264,
     8320, 8375, 8429, 8481, 8532, 8581, 8629, 8676, 8721, 8765,
     8808, 8849, 8889, 8928, 8966, 9002, 9038, 9072, 9105, 9137,
     9168, 9198, 9227, 9255, 9282, 9309, 9334, 9358, 9382, 9405,
     9427, 9448, 9468, 9488, 9507, 9526, 9543, 9561, 9577, 9593,
     9608, 9623, 9637, 9651, 9664, 9677, 9689, 9701, 9713, 9723,
     9734, 9744, 9754, 9763, 9772, 9781, 9790, 9798, 9805, 9813,
     9820, 9827, 9834, 9840, 9846, 9852, 9858, 9863, 9869, 9874,
     9879 >>

(* --------------------------- calculate_confidence ----------------------- *)

\* quality_factor = 1.0 / (1.0 + np.exp(-(best_score - 60) / 25))
QualityFactor(best_score) == SigmoidTable[best_score + 1]

\* a slip: the single candidate gets the formula of the top of several
SingleConfidenceAsTop(quality_factor) == 2500 + FMul(7000, quality_factor)

\* np.array([0.30 + 0.65 * quality_factor])
SingleConfidence(quality_factor) == 3000 + FMul(6500, quality_factor)

\* a slip: the min(..., 1.0) is forgotten
MarginScoreUnclamped(margin) == RoundDiv(margin * ONE, 30)

\* a slip: integer division margin // 30
MarginScoreFloorDiv(margin) == Min((margin \div 30) * ONE, ONE)

\* margin_score = min(margin / 30.0, 1.0)
MarginScore(margin) == Min(RoundDiv(margin * ONE, 30), ONE)

\* a slip: a base of 0.20 instead of 0.25
TopConfidenceLowBase(quality_factor, margin_score) ==
    2000 + FMul(FMul(7000, quality_factor), margin_score)

\* a slip: the margin is left out of the product
TopConfidenceNoMargin(quality_factor, margin_score) ==
    2500 + FMul(7000, quality_factor)

\* a slip: quality and margin are averaged instead of multiplied
TopConfidenceAdditive(quality_factor, margin_score) ==
    2500 + FMul(7000, RoundDiv(quality_factor + margin_score, 2))

\* top_confidence = 0.25 + 0.70 * quality_factor * margin_score
TopConfidence(quality_factor, margin_score) ==
    2500 + FMul(FMul(7000, quality_factor), margin_score)

\* a slip: every other candidate gets the whole remaining mass
RemainingShareUndivided(top_confidence, n) == ONE - top_confidence

\* confidences[i] = remaining_mass / (len(scores) - 1)
RemainingShare(top_confidence, n) == RoundDiv(ONE - top_confidence, n - 1)

\* a slip: the remaining mass is divided by the loop index i
CalculateConfidenceByIndex(s) ==
    IF Len(s) = 0 THEN s
    ELSE LET quality_factor == QualityFactor(s[1]) IN
         IF Len(s) = 1 THEN << SingleConfidence(quality_factor) >>
         ELSE LET top_confidence ==
                      TopConfidence(quality_factor, MarginScore(s[1] - s[2]))
              IN  [i \in 1..Len(s) |->
                      IF i = 1 THEN top_confidence
                      ELSE RoundDiv(ONE - top_confidence, i - 1)]

CalculateConfidence(s) ==
    IF Len(s) = 0 THEN s
    ELSE LET quality_factor == QualityFactor(s[1]) IN
         IF Len(s) = 1 THEN << SingleConfidence(quality_factor) >>
         ELSE LET margin         == s[1] - s[2]
                  margin_score   == MarginScore(margin)
                  top_confidence == TopConfidence(quality_factor, margin_score)
              IN  [i \in 1..Len(s) |->
                      IF i = 1 THEN top_confidence
                      ELSE RemainingShare(top_confidence, Len(s))]

(* --------------------------- calculate_raw_score ------------------------ *)

\* Optional[X]: None is the empty sequence, a value x is <<x>>
None == << >>

\* calculate_raw_score with the verified bonus outside the test of bio_found
CalculateRawScoreVerifiedAlways(candidate) ==
    LET tier == IF candidate.subscribers >= 100000 THEN 100
                ELSE IF candidate.subscribers >= 10000 THEN 50
                ELSE IF candidate.subscribers >= 1000 THEN 25
                ELSE IF candidate.subscribers >= 100 THEN 5
                ELSE IF candidate.subscribers >= 1 THEN 2
                ELSE 0
        bio  == candidate.bio_analysis
    IN  (IF bio # None /\ bio[1].bio_found
         THEN tier + (IF bio[1].mentions_depute THEN 10 ELSE 0)
                   + (IF bio[1].mentions_assemblee THEN 5 ELSE 0)
                   + (IF bio[1].mentions_party THEN 5 ELSE 0)
         ELSE tier)
        + (IF bio # None /\ bio[1].verified THEN 50 ELSE 0)

\* calculate_raw_score with the bonuses of two tiers exchanged
CalculateRawScoreSwappedTiers(candidate) ==
    LET tier == IF candidate.subscribers >= 100000 THEN 100
                ELSE IF candidate.subscribers >= 10000 THEN 50
                ELSE IF candidate.subscribers >= 1000 THEN 5
                ELSE IF candidate.subscribers >= 100 THEN 25
                ELSE IF candidate.subscribers >= 1 THEN 2
                ELSE 0
        bio  == candidate.bio_analysis
    IN  IF bio # None /\ bio[1].bio_found
        THEN tier + (IF bio[1].mentions_depute THEN 10 ELSE 0)
                  + (IF bio[1].mentions_assemblee THEN 5 ELSE 0)
                  + (IF bio[1].mentions_party THEN 5 ELSE 0)
                  + (IF bio[1].verified THEN 50 ELSE 0)
        ELSE tier

CalculateRawScore(candidate) ==
    LET tier == IF candidate.subscribers >= 100000 THEN 100
                ELSE IF candidate.subscribers >= 10000 THEN 50
                ELSE IF candidate.subscribers >= 1000 THEN 25
                ELSE IF candidate.subscribers >= 100 THEN 5
                ELSE IF candidate.subscribers >= 1 THEN 2
                ELSE 0
        bio  == candidate.bio_analysis
    IN  IF bio # None /\ bio[1].bio_found
        THEN tier + (IF bio[1].mentions_depute THEN 10 ELSE 0)
                  + (IF bio[1].mentions_assemblee THEN 5 ELSE 0)
                  + (IF bio[1].mentions_party THEN 5 ELSE 0)
                  + (IF bio[1].verified THEN 50 ELSE 0)
        ELSE tier

\* the follower counts at the edges of the popularity tiers
TierFollowers == {0, 1, 100, 1000, 10000, 100000}

\* every BioAnalysis as far as calculate_raw_score reads it
BioAnalyses ==
    [bio_found : BOOLEAN, mentions_depute : BOOLEAN, mentions_assemblee : BOOLEAN,
     mentions_party : BOOLEAN, verified : BOOLEAN]

\* every value calculate_raw_score can return
RawScores ==
    { CalculateRawScore([subscribers |-> f, bio_analysis |-> b]) :
        f \in TierFollowers, b \in {None} \cup { <<a>> : a \in BioAnalyses } }

(* ----------------------------- process_deputy --------------------------- *)

\* identifiers of the source lists; "a" and "A" differ only in letter case
Usernames == {"", "a", "A", "b"}

\* str.lower() on the identifiers
Lower(username) == IF username = "A" THEN "a" ELSE username

Sources == <<"twitter", "websearch", "variant">>

\* a slip: username_sources[username] = [tag] forgets the earlier sources
AddSourceOverwrite(us, username, tag) ==
    IF username = "" THEN us
    ELSE IF \E k \in 1..Len(us) : us[k].username = username
         THEN [k \in 1..Len(us) |->
                  IF us[k].username = username
                  THEN [us[k] EXCEPT !.sources = <<tag>>]
                  ELSE us[k]]
         ELSE Append(us, [username |-> username, sources |-> <<tag>>])

\* the body of one merge loop iteration:
\*   if username: username_sources.setdefault(username, []).append(tag)
AddSource(us, username, tag) ==
    IF username = "" THEN us
    ELSE IF \E k \in 1..Len(us) : us[k].username = username
         THEN [k \in 1..Len(us) |->
                  IF us[k].username = username
                  THEN [us[k] EXCEPT !.sources = Append(@, tag)]
                  ELSE us[k]]
         ELSE Append(us, [username |-> username, sources |-> <<tag>>])

RECURSIVE MergeList(_, _, _)
\* for username in deputy.get(<tag>_username, []): ...
MergeList(us, list, tag) ==
    IF list = << >> THEN us
    ELSE MergeList(AddSource(us, Head(list), tag), Tail(list), tag)

\* username_sources after the three merge loops, as list(username_sources.items())
UsernameSources(d) ==
    MergeList(MergeList(MergeList(<< >>, d.twitter_username, "twitter"),
                        d.websearch_username, "websearch"),
              d.variant_username, "variant")

\* what TikTok answers for one username: the HEAD request, the profile page
\* (followers) and the bio analysis
DeputeBio == [bio_found |-> TRUE, mentions_depute |-> TRUE, mentions_assemblee |-> TRUE,
              mentions_party |-> FALSE, verified |-> FALSE]

Responses ==
    { [head_ok |-> FALSE, info_ok |-> FALSE, followers |-> 0, bio |-> None],
      [head_ok |-> TRUE,  info_ok |-> FALSE, followers |-> 0, bio |-> None] }
    \cup [head_ok : {TRUE}, info_ok : {TRUE}, followers : {0}, bio : {None}]
    \cup [head_ok : {TRUE}, info_ok : {TRUE}, followers : {150, 1500},
          bio : {None, <<DeputeBio>>}]

\* check_tiktok_exists without the test of the profile info (lines 49-51)
CheckTiktokExistsIgnoringInfo(resp) ==
    IF ~resp.head_ok THEN <<FALSE, 0>>
    ELSE <<TRUE, resp.followers>>

\* check_tiktok_exists: <<exists, subscribers>>
CheckTiktokExists(resp) ==
    IF ~resp.head_ok THEN <<FALSE, 0>>
    ELSE IF ~resp.info_ok THEN <<FALSE, 0>>
    ELSE <<TRUE, resp.followers>>

RECURSIVE InsertDesc(_, _, _)
\* insert the candidate c (an index of cands) into the list s, which is sorted
\* by raw_score descending, after the candidates of equal raw_score
InsertDesc(s, c, cands) ==
    IF s = << >> THEN <<c>>
    ELSE IF cands[c].raw_score > cands[Head(s)].raw_score THEN <<c>> \o s
    ELSE <<Head(s)>> \o InsertDesc(Tail(s), c, cands)

RECURSIVE SortedByRawScore(_, _)
\* sorted(s, key=lambda c: c.raw_score, reverse=True): stable, candidates of
\* equal raw_score keep their order
SortedByRawScore(s, cands) ==
    IF s = << >> THEN << >>
    ELSE InsertDesc(SortedByRawScore(SubSeq(s, 1, Len(s) - 1), cands), s[Len(s)], cands)

RECURSIVE WithSubs(_, _)
\* [c for c in candidates if c.subscribers >= 1], as indices of cands from k on
WithSubs(cands, k) ==
    IF k > Len(cands) THEN << >>
    ELSE (IF cands[k].subscribers >= 1 THEN <<k>> ELSE << >>) \o WithSubs(cands, k + 1)

RECURSIVE SumSeq(_)
SumSeq(s) == IF s = << >> THEN 0 ELSE Head(s) + SumSeq(Tail(s))

(* ------------------------------- the inputs ----------------------------- *)

SeqsUpTo(S, n) == UNION { [1..k -> S] : k \in 0..n }

\* the deputies of the input file: three source lists of at most n
\* identifiers in all
DeputiesUpTo(n) ==
    UNION { UNION { { [twitter_username |-> t, websearch_username |-> w,
                       variant_username |-> v] :
                      v \in SeqsUpTo(Usernames, n - Len(t) - Len(w)) } :
                    w \in SeqsUpTo(Usernames, n - Len(t)) } :
            t \in SeqsUpTo(Usernames, n) }

Deputies == DeputiesUpTo(MaxIds)

\* identifiers of a deputy with many different ones
WideUsernames == {"a", "b", "c", "d"}

\* deputies with one source list of at most MaxWideIds different identifiers
WideDeputies ==
    { [twitter_username |-> t, websearch_username |-> << >>,
       variant_username |-> << >>] :
      t \in { s \in SeqsUpTo(WideUsernames, MaxWideIds) :
                \A i, j \in 1..Len(s) : s[i] = s[j] => i = j } }

NoDeputy == [twitter_username |-> << >>, websearch_username |-> << >>,
             variant_username |-> << >>]

(* --------------------- process_deputy, step by step --------------------- *)

\* process_deputy is entered with one of the deputies D
InitWith(D) ==
    /\ pc = "merge"
    /\ deputy \in D
    /\ unique_usernames = << >>
    /\ idx = 1
    /\ candidates = << >>
    /\ candidates_with_subs = << >>
    /\ sorted_candidates = << >>
    /\ scores = << >>
    /\ confidences = << >>
    /\ best_candidate = 0
    /\ top_3 = << >>
    /\ result = << >>
    /\ bio_text = << >>
    /\ analysis = << >>
    /\ lookups = << >>
    /\ NoDatabase
    /\ user_info = << >>

Init == InitWith(Deputies)

\* lines 128-151: the three merge loops; no username at all returns (None, [])
Merge ==
    /\ pc = "merge"
    /\ unique_usernames' = UsernameSources(deputy)
    /\ pc' = IF unique_usernames' = << >> THEN "done" ELSE "lookup"
    /\ UNCHANGED <<deputy, idx, candidates, candidates_with_subs, sorted_candidates,
                   scores, confidences, best_candidate, top_3,
                   result, bio_text, analysis, lookups, user_info,
                   dbVars>>

\* the candidate built at lines 168-174
NewCandidate(entry, subscribers, bio_analysis) ==
    [username |-> entry.username, exists |-> TRUE, subscribers |-> subscribers,
     source |-> entry.sources, bio_analysis |-> bio_analysis,
     raw_score |-> 0, confidence |-> 0]

\* lines 155-176: one iteration of the lookup loop
CheckCandidate ==
    /\ pc = "lookup"
    /\ \E resp \in Responses :
         LET found       == CheckTiktokExists(resp)
             subscribers == found[2]
             bio         == IF subscribers >= 1 THEN resp.bio ELSE None
         IN  /\ candidates' =
                   IF found[1]
                   THEN Append(candidates,
                               NewCandidate(unique_usernames[idx], subscribers, bio))
                   ELSE candidates
             /\ lookups' = Append(lookups, resp.head_ok /\ resp.info_ok)
    /\ idx' = idx + 1
    /\ pc' = IF idx = Len(unique_usernames) THEN "partition" ELSE "lookup"
    /\ UNCHANGED <<deputy, unique_usernames, candidates_with_subs, sorted_candidates,
                   scores, confidences, best_candidate, top_3,
                   result, bio_text, analysis, user_info,
                   dbVars>>

\* lines 178-184 without the fallback of lines 183-184
PartitionNoFallback ==
    /\ pc = "partition"
    /\ candidates_with_subs' =
           IF candidates = << >> THEN << >> ELSE WithSubs(candidates, 1)
    /\ IF candidates = << >> \/ candidates_with_subs' = << >>
       THEN pc' = "done" /\ UNCHANGED <<best_candidate, top_3,
                   dbVars>>
       ELSE pc' = "score" /\ UNCHANGED <<best_candidate, top_3,
                   dbVars>>
    /\ UNCHANGED <<deputy, unique_usernames, idx, candidates, sorted_candidates,
                   scores, confidences,
                   result, bio_text, analysis, lookups, user_info,
                   dbVars>>

\* lines 178-184 with candidates[-1] for candidates[0]
PartitionLastCandidate ==
    /\ pc = "partition"
    /\ candidates_with_subs' =
           IF candidates = << >> THEN << >> ELSE WithSubs(candidates, 1)
    /\ IF candidates = << >>
       THEN pc' = "done" /\ UNCHANGED <<best_candidate, top_3,
                   dbVars>>
       ELSE IF candidates_with_subs' = << >>
            THEN /\ pc' = "done"
                 /\ best_candidate' = Len(candidates)
                 /\ top_3' = <<Len(candidates)>>
            ELSE pc' = "score" /\ UNCHANGED <<best_candidate, top_3,
                   dbVars>>
    /\ UNCHANGED <<deputy, unique_usernames, idx, candidates, sorted_candidates,
                   scores, confidences,
                   result, bio_text, analysis, lookups, user_info,
                   dbVars>>

\* lines 178-184: no candidate returns (None, []); no candidate with
\* subscribers returns the first candidate alone
Partition ==
    /\ pc = "partition"
    /\ candidates_with_subs' =
           IF candidates = << >> THEN << >> ELSE WithSubs(candidates, 1)
    /\ IF candidates = << >>
       THEN pc' = "done" /\ UNCHANGED <<best_candidate, top_3,
                   dbVars>>
       ELSE IF candidates_with_subs' = << >>
            THEN pc' = "done" /\ best_candidate' = 1 /\ top_3' = <<1>>
            ELSE pc' = "score" /\ UNCHANGED <<best_candidate, top_3,
                   dbVars>>
    /\ UNCHANGED <<deputy, unique_usernames, idx, candidates, sorted_candidates,
                   scores, confidences,
                   result, bio_text, analysis, lookups, user_info,
                   dbVars>>

InSeq(x, s) == \E k \in 1..Len(s) : s[k] = x

\* lines 186-187
Score ==
    /\ pc = "score"
    /\ candidates' =
           [k \in 1..Len(candidates) |->
               IF InSeq(k, candidates_with_subs)
               THEN [candidates[k] EXCEPT !.raw_score = CalculateRawScore(candidates[k])]
               ELSE candidates[k]]
    /\ pc' = "sort"
    /\ UNCHANGED <<deputy, unique_usernames, idx, candidates_with_subs,
                   sorted_candidates, scores, confidences, best_candidate, top_3,
                   result, bio_text, analysis, lookups, user_info,
                   dbVars>>

\* line 190 with a sort that reverses the candidates of equal raw_score
SortReversingTies ==
    /\ pc = "sort"
    /\ sorted_candidates' =
           SortedByRawScore([i \in 1..Len(candidates_with_subs) |->
                                candidates_with_subs[Len(candidates_with_subs) + 1 - i]],
                            candidates)
    /\ pc' = "confidence"
    /\ UNCHANGED <<deputy, unique_usernames, idx, candidates, candidates_with_subs,
                   scores, confidences, best_candidate, top_3,
                   result, bio_text, analysis, lookups, user_info,
                   dbVars>>

\* line 190
Sort ==
    /\ pc = "sort"
    /\ sorted_candidates' = SortedByRawScore(candidates_with_subs, candidates)
    /\ pc' = "confidence"
    /\ UNCHANGED <<deputy, unique_usernames, idx, candidates, candidates_with_subs,
                   scores, confidences, best_candidate, top_3,
                   result, bio_text, analysis, lookups, user_info,
                   dbVars>>

\* lines 193-198 with the i-th confidence given to the i-th candidate of
\* candidates_with_subs
ConfidenceInDiscoveryOrder ==
    /\ pc = "confidence"
    /\ scores' = [i \in 1..Len(sorted_candidates) |->
                     candidates[sorted_candidates[i]].raw_score]
    /\ confidences' = CalculateConfidence(scores')
    /\ candidates' =
           [k \in 1..Len(candidates) |->
               IF InSeq(k, candidates_with_subs)
               THEN [candidates[k] EXCEPT !.confidence =
                        confidences'[CHOOSE i \in 1..Len(candidates_with_subs) :
                                        candidates_with_subs[i] = k]]
               ELSE candidates[k]]
    /\ pc' = "return"
    /\ UNCHANGED <<deputy, unique_usernames, idx, candidates_with_subs,
                   sorted_candidates, best_candidate, top_3,
                   result, bio_text, analysis, lookups, user_info,
                   dbVars>>

\* lines 193-198
Confidence ==
    /\ pc = "confidence"
    /\ scores' = [i \in 1..Len(sorted_candidates) |->
                     candidates[sorted_candidates[i]].raw_score]
    /\ confidences' = CalculateConfidence(scores')
    /\ candidates' =
           [k \in 1..Len(candidates) |->
               IF InSeq(k, sorted_candidates)
               THEN [candidates[k] EXCEPT !.confidence =
                        confidences'[CHOOSE i \in 1..Len(sorted_candidates) :
                                        sorted_candidates[i] = k]]
               ELSE candidates[k]]
    /\ pc' = "return"
    /\ UNCHANGED <<deputy, unique_usernames, idx, candidates_with_subs,
                   sorted_candidates, best_candidate, top_3,
                   result, bio_text, analysis, lookups, user_info,
                   dbVars>>

\* lines 200-210 with top_3 = sorted_candidates
ReturnWholeList ==
    /\ pc = "return"
    /\ best_candidate' = sorted_candidates[1]
    /\ top_3' = sorted_candidates
    /\ pc' = "done"
    /\ UNCHANGED <<deputy, unique_usernames, idx, candidates, candidates_with_subs,
                   sorted_candidates, scores, confidences,
                   result, bio_text, analysis, lookups, user_info,
                   dbVars>>

\* lines 200-210
Return ==
    /\ pc = "return"
    /\ best_candidate' = sorted_candidates[1]
    /\ top_3' = SubSeq(sorted_candidates, 1, Min(3, Len(sorted_candidates)))
    /\ pc' = "done"
    /\ UNCHANGED <<deputy, unique_usernames, idx, candidates, candidates_with_subs,
                   sorted_candidates, scores, confidences,
                   result, bio_text, analysis, lookups, user_info,
                   dbVars>>

Next == Merge \/ CheckCandidate \/ Partition \/ Score \/ Sort \/ Confidence \/ Return

Spec == Init /\ [][Next]_vars

(* ------------------- main: the record of one deputy --------------------- *)

\* one entry of top_3_data (lines 247-254)
Top3Entry(candidate) ==
    [username |-> candidate.username, subscribers |-> candidate.subscribers,
     raw_score |-> candidate.raw_score, confidence |-> candidate.confidence,
     sources |-> candidate.source, num_sources |-> Len(candidate.source)]

\* best_match (lines 259-274)
BestMatch(best) ==
    [username |-> best.username, subscribers |-> best.subscribers,
     confidence |-> best.confidence, raw_score |-> best.raw_score,
     sources |-> best.source, num_sources |-> Len(best.source),
     verified |-> IF best.bio_analysis # None
                  THEN best.bio_analysis[1].verified ELSE FALSE,
     mentions_depute |-> IF best.bio_analysis # None
                         THEN best.bio_analysis[1].mentions_depute ELSE FALSE,
     mentions_assemblee |-> IF best.bio_analysis # None
                            THEN best.bio_analysis[1].mentions_assemblee ELSE FALSE,
     mentions_party |-> IF best.bio_analysis # None
                        THEN best.bio_analysis[1].mentions_party ELSE FALSE]

\* lines 240-287: best, top_3 = process_deputy(...); results.append({...})
Report ==
    /\ pc = "done"
    /\ result' =
         IF best_candidate # 0
         THEN << [best_match |-> << BestMatch(candidates[best_candidate]) >>,
                  top_3_matches |-> [i \in 1..Len(top_3) |->
                                        Top3Entry(candidates[top_3[i]])],
                  found |-> TRUE] >>
         ELSE << [best_match |-> None, top_3_matches |-> << >>, found |-> FALSE] >>
    /\ pc' = "reported"
    /\ UNCHANGED <<deputy, unique_usernames, idx, candidates, candidates_with_subs,
                   sorted_candidates, scores, confidences, best_candidate, top_3,
                   bio_text, analysis, lookups, user_info,
                   dbVars>>

InitMain == InitWith(DeputiesUpTo(MaxMainIds))

NextMain ==
    Merge \/ CheckCandidate \/ Partition \/ Score \/ Sort \/ Confidence \/ Return
        \/ Report

SpecMain == InitMain /\ [][NextMain]_vars

\* the same for the deputies with many different identifiers
InitWide == InitWith(WideDeputies)

SpecWide == InitWide /\ [][NextMain]_vars

(* ------------- calculate_confidence on every sorted score array --------- *)

InitConf ==
    /\ pc = "build"
    /\ scores = << >>
    /\ confidences = << >>
    /\ deputy = NoDeputy
    /\ unique_usernames = << >>
    /\ idx = 1
    /\ candidates = << >>
    /\ candidates_with_subs = << >>
    /\ sorted_candidates = << >>
    /\ best_candidate = 0
    /\ top_3 = << >>
    /\ result = << >>
    /\ bio_text = << >>
    /\ analysis = << >>
    /\ lookups = << >>
    /\ NoDatabase
    /\ user_info = << >>

\* the caller extends the array by a raw score, keeping it sorted descending
\* (at most n scores)
PushScoreUpTo(n) ==
    /\ pc = "build"
    /\ Len(scores) < n
    /\ \E v \in RawScores :
         /\ IF scores = << >> THEN TRUE ELSE v <= scores[Len(scores)]
         /\ scores' = Append(scores, v)
    /\ UNCHANGED <<pc, deputy, unique_usernames, idx, candidates, candidates_with_subs,
                   sorted_candidates, confidences, best_candidate, top_3,
                   result, bio_text, analysis, lookups, user_info,
                   dbVars>>

PushScore == PushScoreUpTo(MaxScores)

PushScoreLong == PushScoreUpTo(MaxLongScores)

\* confidences = calculate_confidence(scores)
CallConfidence ==
    /\ pc = "build"
    /\ confidences' = CalculateConfidence(scores)
    /\ pc' = "returned"
    /\ UNCHANGED <<deputy, unique_usernames, idx, candidates, candidates_with_subs,
                   sorted_candidates, scores, best_candidate, top_3,
                   result, bio_text, analysis, lookups, user_info,
                   dbVars>>

NextConf == PushScore \/ CallConfidence

SpecConf == InitConf /\ [][NextConf]_vars

\* the same on the longer arrays
NextConfLong == PushScoreLong \/ CallConfidence

SpecConfLong == InitConf /\ [][NextConfLong]_vars

(* ------------------------------ the bio text ---------------------------- *)

\* A text is the sequence of its characters, each a string; "e_acute" and
\* "E_acute" stand for the letter e with an acute accent, small and capital,
\* "euro" for the euro sign and "nbsp" for the no-break space. The empty text and None are both << >>: the
\* code reads either through `not bio_text` only.

UpperChars ==
    << "A", "B", "C", "D", "E", "F", "G", "H", "I", "J", "K", "L", "M",
       "N", "O", "P", "Q", "R", "S", "T", "U", "V", "W", "X", "Y", "Z" >>

LowerChars ==
    << "a", "b", "c", "d", "e", "f", "g", "h", "i", "j", "k", "l", "m",
       "n", "o", "p", "q", "r", "s", "t", "u", "v", "w", "x", "y", "z" >>

\* unicodedata.normalize('NFKD', c).encode('ascii', 'ignore').decode('ascii')
\* of one character: the accent goes, a character that is not ASCII goes
NfkdAscii(c) ==
    CASE c = "e_acute" -> <<"e">>
      [] c = "E_acute" -> <<"E">>
      [] c = "euro"    -> << >>
      [] c = "nbsp"    -> <<" ">>
      [] OTHER         -> <<c>>

\* str.lower() of one character
LowerChar(c) ==
    IF c = "E_acute" THEN "e_acute"
    ELSE IF \E i \in 1..Len(UpperChars) : UpperChars[i] = c
    THEN LowerChars[CHOOSE i \in 1..Len(UpperChars) : UpperChars[i] = c]
    ELSE c

RECURSIVE Flatten(_)
\* the concatenation of the texts of a sequence
Flatten(ss) == IF ss = << >> THEN << >> ELSE Head(ss) \o Flatten(Tail(ss))

\* the whitespace str.strip() removes, among the characters of the texts
Whitespace == {" ", "nbsp"}

RECURSIVE LStrip(_)
LStrip(text) ==
    IF text # << >> /\ Head(text) \in Whitespace THEN LStrip(Tail(text)) ELSE text

RECURSIVE RStrip(_)
RStrip(text) ==
    IF text # << >> /\ text[Len(text)] \in Whitespace
    THEN RStrip(SubSeq(text, 1, Len(text) - 1))
    ELSE text

\* str.strip()
Strip(text) == RStrip(LStrip(text))

\* str.lower()
LowerText(text) == [i \in 1..Len(text) |-> LowerChar(text[i])]

\* normalize_string with the strip() done first
NormalizeStringStripFirst(text) ==
    LowerText(Flatten([i \in 1..Len(Strip(text)) |-> NfkdAscii(Strip(text)[i])]))

\* normalize_string
NormalizeString(text) ==
    Strip(LowerText(Flatten([i \in 1..Len(text) |-> NfkdAscii(text[i])])))

\* kw in text
Contains(text, kw) ==
    \E o \in 0..(Len(text) - Len(kw)) : SubSeq(text, o + 1, o + Len(kw)) = kw

\* any(kw in text for kw in keywords)
AnyIn(text, keywords) == \E n \in 1..Len(keywords) : Contains(text, keywords[n])

depute_keywords ==
    << <<"d","e","p","u","t","e">>, <<"d","e","p","u","t","e","e">>,
       <<"p","a","r","l","e","m","e","n","t","a","i","r","e">>, <<"e","l","u">>,
       <<"e","l","u","e">> >>

assemblee_keywords ==
    << <<"a","s","s","e","m","b","l","e","e"," ","n","a","t","i","o","n","a","l","e">>,
       <<"a","s","s","e","m","b","l","e","e">>,
       <<"p","a","l","a","i","s"," ","b","o","u","r","b","o","n">> >>

\* parties, in the order of the dict: <<party_name, keywords>>
parties ==
    << <<"LFI", << <<"l","f","i">>,
             <<"f","r","a","n","c","e"," ","i","n","s","o","u","m","i","s","e">>,
             <<"l","a"," ","f","r","a","n","c","e"," ","i","n","s","o","u","m","i","s","e">>,
             <<"i","n","s","o","u","m","i","s">> >> >>,
       <<"Renaissance", << <<"r","e","n","a","i","s","s","a","n","c","e">>,
             <<"r","e","n","e","w">>, <<"e","n","s","e","m","b","l","e">> >> >>,
       <<"RN", << <<"r","n">>,
             <<"r","a","s","s","e","m","b","l","e","m","e","n","t"," ","n","a","t","i","o","n","a","l">>,
             <<"f","r","o","n","t"," ","n","a","t","i","o","n","a","l">>,
             <<"f","n">> >> >>,
       <<"LR", << <<"l","r">>,
             <<"l","e","s"," ","r","e","p","u","b","l","i","c","a","i","n","s">>,
             <<"r","e","p","u","b","l","i","c","a","i","n","s">> >> >>,
       <<"PS", << <<"p","s">>,
             <<"p","a","r","t","i"," ","s","o","c","i","a","l","i","s","t","e">>,
             <<"s","o","c","i","a","l","i","s","t","e">> >> >>,
       <<"EELV", << <<"e","e","l","v">>, <<"e","c","o","l","o","g","i","s","t","e">>,
             <<"e","u","r","o","p","e"," ","e","c","o","l","o","g","i","e">>,
             <<"v","e","r","t","s">> >> >>,
       <<"PCF", << <<"p","c","f">>, <<"c","o","m","m","u","n","i","s","t","e">>,
             <<"p","a","r","t","i"," ","c","o","m","m","u","n","i","s","t","e">> >> >>,
       <<"Modem", << <<"m","o","d","e","m">>, <<"d","e","m","o","c","r","a","t","e">> >> >>,
       <<"Horizons", << <<"h","o","r","i","z","o","n","s">> >> >>,
       <<"UDI", << <<"u","d","i">>,
             <<"u","n","i","o","n"," ","d","e","s"," ","d","e","m","o","c","r","a","t","e","s">> >> >> >>

region_keywords ==
    << <<"c","i","r","c","o","n","s","c","r","i","p","t","i","o","n">>,
       <<"d","e","p","a","r","t","e","m","e","n","t">>, <<"r","e","g","i","o","n">>,
       <<"t","e","r","r","i","t","o","i","r","e">>, <<"s","e","i","n","e">>,
       <<"p","a","r","i","s">>, <<"l","y","o","n">>,
       <<"m","a","r","s","e","i","l","l","e">>, <<"n","o","r","d">>, <<"s","u","d">>,
       <<"v","a","l","-","d","e","-","m","a","r","n","e">>,
       <<"e","s","s","o","n","n","e">>,
       <<"h","a","u","t","s","-","d","e","-","s","e","i","n","e">>,
       <<"y","v","e","l","i","n","e","s">> >>

\* analyze_bio_keywords with its own mentions_depute in the result
AnalyzeBioKeywordsOwnFlags(text) ==
    IF text = << >>
    THEN [mentions_depute |-> FALSE, mentions_party |-> FALSE,
          mentions_region |-> FALSE, mentions_assemblee |-> FALSE,
          party_name |-> None]
    ELSE LET bio_normalized     == NormalizeString(text)
             mentions_depute    == AnyIn(bio_normalized, depute_keywords)
             mentions_assemblee == AnyIn(bio_normalized, assemblee_keywords)
             matching == { n \in 1..Len(parties) : AnyIn(bio_normalized, parties[n][2]) }
             detected_party ==
                 IF matching = {} THEN None
                 ELSE << parties[CHOOSE n \in matching :
                                     \A m \in matching : n <= m][1] >>
             mentions_region    == AnyIn(bio_normalized, region_keywords)
         IN  [mentions_depute |-> mentions_depute,
              mentions_party |-> detected_party # None,
              mentions_region |-> mentions_region,
              mentions_assemblee |-> mentions_assemblee,
              party_name |-> detected_party]

\* analyze_bio_keywords without the break of the loop over the parties: the
\* last matching party stays
AnalyzeBioKeywordsLastParty(text) ==
    IF text = << >>
    THEN [mentions_depute |-> FALSE, mentions_party |-> FALSE,
          mentions_region |-> FALSE, mentions_assemblee |-> FALSE,
          party_name |-> None]
    ELSE LET bio_normalized     == NormalizeString(text)
             mentions_depute    == AnyIn(bio_normalized, depute_keywords)
             mentions_assemblee == AnyIn(bio_normalized, assemblee_keywords)
             matching == { n \in 1..Len(parties) : AnyIn(bio_normalized, parties[n][2]) }
             detected_party ==
                 IF matching = {} THEN None
                 ELSE << parties[CHOOSE n \in matching :
                                     \A m \in matching : n >= m][1] >>
             mentions_region    == AnyIn(bio_normalized, region_keywords)
         IN  [mentions_depute |-> mentions_depute \/ mentions_assemblee,
              mentions_party |-> detected_party # None,
              mentions_region |-> mentions_region,
              mentions_assemblee |-> mentions_assemblee,
              party_name |-> detected_party]

\* analyze_bio_keywords
AnalyzeBioKeywords(text) ==
    IF text = << >>
    THEN [mentions_depute |-> FALSE, mentions_party |-> FALSE,
          mentions_region |-> FALSE, mentions_assemblee |-> FALSE,
          party_name |-> None]
    ELSE LET bio_normalized     == NormalizeString(text)
             mentions_depute    == AnyIn(bio_normalized, depute_keywords)
             mentions_assemblee == AnyIn(bio_normalized, assemblee_keywords)
             matching == { n \in 1..Len(parties) : AnyIn(bio_normalized, parties[n][2]) }
             detected_party ==
                 IF matching = {} THEN None
                 ELSE << parties[CHOOSE n \in matching :
                                     \A m \in matching : n <= m][1] >>
             mentions_region    == AnyIn(bio_normalized, region_keywords)
         IN  [mentions_depute |-> mentions_depute \/ mentions_assemblee,
              mentions_party |-> detected_party # None,
              mentions_region |-> mentions_region,
              mentions_assemblee |-> mentions_assemblee,
              party_name |-> detected_party]

\* the bio extract_user_info takes from the signature of the page (lines
\* 44-55); no character of the texts here is escaped in JSON, so json.loads
\* gives the signature back
ExtractBio(signature) ==
    IF Len(signature) > 3
         /\ ~Contains(LowerText(signature), <<"s","i","g","n","a","t","u","r","e">>)
    THEN Strip(signature)
    ELSE << >>

\* what analyze_tiktok_bio gets from extract_user_info for a page with that
\* signature: an exception, {} (status not 200, or an exception caught
\* inside), or the info of the page
UserInfos(signature) ==
    { [raised |-> TRUE, found |-> FALSE, bio |-> << >>, followers |-> 0,
       verified |-> FALSE],
      [raised |-> FALSE, found |-> FALSE, bio |-> << >>, followers |-> 0,
       verified |-> FALSE] }
    \cup [raised : {FALSE}, found : {TRUE}, bio : {ExtractBio(signature)},
          followers : {0, 1500}, verified : BOOLEAN]

\* analyze_tiktok_bio with bio_found set whatever the text
AnalyzeTiktokBioFoundWithoutText(info) ==
    IF info.raised
    THEN [bio_text |-> << >>, bio_found |-> FALSE, mentions_depute |-> FALSE,
          mentions_party |-> FALSE, mentions_region |-> FALSE,
          mentions_assemblee |-> FALSE, party_name |-> None,
          followers |-> 0, verified |-> FALSE]
    ELSE IF info.bio = << >>
    THEN [bio_text |-> << >>, bio_found |-> TRUE, mentions_depute |-> FALSE,
          mentions_party |-> FALSE, mentions_region |-> FALSE,
          mentions_assemblee |-> FALSE, party_name |-> None,
          followers |-> info.followers, verified |-> info.verified]
    ELSE LET a == AnalyzeBioKeywords(info.bio)
         IN  [bio_text |-> info.bio, bio_found |-> TRUE,
              mentions_depute |-> a.mentions_depute,
              mentions_party |-> a.mentions_party,
              mentions_region |-> a.mentions_region,
              mentions_assemblee |-> a.mentions_assemblee,
              party_name |-> a.party_name,
              followers |-> info.followers, verified |-> info.verified]

\* analyze_tiktok_bio: the BioAnalysis returned, but for its username; the
\* info {} answers every get with the default, as the fields of info do here
AnalyzeTiktokBio(info) ==
    IF info.raised
    THEN [bio_text |-> << >>, bio_found |-> FALSE, mentions_depute |-> FALSE,
          mentions_party |-> FALSE, mentions_region |-> FALSE,
          mentions_assemblee |-> FALSE, party_name |-> None,
          followers |-> 0, verified |-> FALSE]
    ELSE IF info.bio = << >>
    THEN [bio_text |-> << >>, bio_found |-> FALSE, mentions_depute |-> FALSE,
          mentions_party |-> FALSE, mentions_region |-> FALSE,
          mentions_assemblee |-> FALSE, party_name |-> None,
          followers |-> info.followers, verified |-> info.verified]
    ELSE LET a == AnalyzeBioKeywords(info.bio)
         IN  [bio_text |-> info.bio, bio_found |-> TRUE,
              mentions_depute |-> a.mentions_depute,
              mentions_party |-> a.mentions_party,
              mentions_region |-> a.mentions_region,
              mentions_assemblee |-> a.mentions_assemblee,
              party_name |-> a.party_name,
              followers |-> info.followers, verified |-> info.verified]

\* words of a bio, as written: "Depute" and "Assemblee" with their accents,
\* a space, a no-break space, "PS", "LR", "sud", "x", the euro sign, and "el"
\* and "u", which make the keyword "elu" only together
Tokens ==
    { <<"D","e_acute","p","u","t","e_acute">>,
      <<"A","s","s","e","m","b","l","e_acute","e">>,
      <<" ">>, <<"nbsp">>, <<"P","S">>, <<"L","R">>, <<"s","u","d">>, <<"x">>,
      <<"euro">>,
      <<"e","l">>, <<"u">> }

\* the texts of at most MaxTokens words
BioTexts == { Flatten(ts) : ts \in SeqsUpTo(Tokens, MaxTokens) }

InitBio ==
    /\ pc = "bio_call"
    /\ bio_text \in BioTexts
    /\ analysis = << >>
    /\ user_info = << >>
    /\ deputy = NoDeputy
    /\ unique_usernames = << >>
    /\ idx = 1
    /\ candidates = << >>
    /\ candidates_with_subs = << >>
    /\ sorted_candidates = << >>
    /\ scores = << >>
    /\ confidences = << >>
    /\ best_candidate = 0
    /\ top_3 = << >>
    /\ result = << >>
    /\ lookups = << >>
    /\ NoDatabase

\* analysis = analyze_bio_keywords(bio_text)
CallAnalyzeBioKeywords ==
    /\ pc = "bio_call"
    /\ analysis' = << AnalyzeBioKeywords(bio_text) >>
    /\ pc' = "keywords_returned"
    /\ UNCHANGED <<deputy, unique_usernames, idx, candidates, candidates_with_subs,
                   sorted_candidates, scores, confidences, best_candidate, top_3,
                   result, bio_text, lookups, user_info,
                   dbVars>>

\* bio_analysis = analyze_tiktok_bio(username), the page of the account
\* having the signature bio_text
CallAnalyzeTiktokBio ==
    /\ pc = "bio_call"
    /\ \E info \in UserInfos(bio_text) :
          /\ user_info' = <<info>>
          /\ analysis' = << AnalyzeTiktokBio(info) >>
    /\ pc' = "bio_returned"
    /\ UNCHANGED <<deputy, unique_usernames, idx, candidates, candidates_with_subs,
                   sorted_candidates, scores, confidences, best_candidate, top_3,
                   result, bio_text, lookups,
                   dbVars>>

\* normalize_string(bio_text)
CallNormalizeString ==
    /\ pc = "bio_call"
    /\ analysis' = << NormalizeString(bio_text) >>
    /\ pc' = "normalized"
    /\ UNCHANGED <<deputy, unique_usernames, idx, candidates, candidates_with_subs,
                   sorted_candidates, scores, confidences, best_candidate, top_3,
                   result, bio_text, lookups, user_info,
                   dbVars>>

NextBio == CallAnalyzeBioKeywords \/ CallAnalyzeTiktokBio \/ CallNormalizeString

SpecBio == InitBio /\ [][NextBio]_vars

(* --------------------- calculate_raw_score on its own ------------------- *)

\* follower counts at, next to and between the edges of the popularity tiers
ScoreFollowers ==
    {0, 1, 2, 50, 99, 100, 101, 999, 1000, 1001, 9999, 10000, 10001, 99999,
     100000, 100001, 2000000}

\* one candidate as built at lines 168-174, with any follower count and any
\* bio analysis or none
InitScore ==
    /\ pc = "score_call"
    /\ candidates \in
           { << NewCandidate([username |-> "a", sources |-> <<"twitter">>], f, b) >> :
               f \in ScoreFollowers, b \in {None} \cup { <<a>> : a \in BioAnalyses } }
    /\ deputy = NoDeputy
    /\ unique_usernames = << >>
    /\ idx = 1
    /\ candidates_with_subs = << >>
    /\ sorted_candidates = << >>
    /\ scores = << >>
    /\ confidences = << >>
    /\ best_candidate = 0
    /\ top_3 = << >>
    /\ result = << >>
    /\ bio_text = << >>
    /\ analysis = << >>
    /\ lookups = << >>
    /\ NoDatabase
    /\ user_info = << >>

\* candidate.raw_score = calculate_raw_score(candidate)
CallRawScore ==
    /\ pc = "score_call"
    /\ candidates' = << [candidates[1] EXCEPT
                            !.raw_score = CalculateRawScore(candidates[1])] >>
    /\ pc' = "scored"
    /\ UNCHANGED <<deputy, unique_usernames, idx, candidates_with_subs,
                   sorted_candidates, scores, confidences, best_candidate, top_3,
                   result, bio_text, analysis, lookups, user_info,
                   dbVars>>

NextScore == CallRawScore

SpecScore == InitScore /\ [][NextScore]_vars

(* ------------------ the verification database (main.py) ---------------- *)

\* Usernames and names of the database are texts; an Optional or nullable
\* value is << >> for None and <<x>> for the value x. A row of the deputies
\* table holds the columns the requests below read or write; its id is its
\* place in db (SQLite numbers the rows of an emptied table from 1 again).

\* most matches of one deputy
MaxMatches == 2

NameA == <<"n","1">>

NameB == <<"n","2">>

\* f"https://www.tiktok.com/@{username}", "t/" standing for the address of
\* the site
TikTokUrl(username) == <<"t","/","@">> \o username

\* the record main writes for a deputy with a best match (lines 256-277)
FoundRecord(name) ==
    [name |-> name, has_best_match |-> TRUE,
     best_match |-> << [username |-> <<"a">>, url |-> TikTokUrl(<<"a">>)] >>,
     top_3_matches |-> << [username |-> <<"a">>, confidence |-> 7000,
                           is_manual |-> FALSE] >>,
     found |-> TRUE]

\* the record main writes for a deputy without candidate (lines 281-287):
\* 'best_match': None
NotFoundRecord(name) ==
    [name |-> name, has_best_match |-> TRUE, best_match |-> None,
     top_3_matches |-> << >>, found |-> FALSE]

\* a record without the key best_match, for which the loaders have the
\* default {} (item.get("best_match", {}))
NoBestMatchRecord(name) ==
    [name |-> name, has_best_match |-> FALSE, best_match |-> None,
     top_3_matches |-> << >>, found |-> FALSE]

RecordsOf(name) == {FoundRecord(name), NotFoundRecord(name), NoBestMatchRecord(name)}

\* tiktok_results.json: missing, not JSON, or the records of one or two
\* deputies of different names (of two, the first was found)
ResultFiles ==
    { NoFile, [exists |-> TRUE, parsable |-> FALSE, data |-> << >>] }
    \cup { [exists |-> TRUE, parsable |-> TRUE, data |-> <<a>>] : a \in RecordsOf(NameA) }
    \cup { [exists |-> TRUE, parsable |-> TRUE, data |-> <<FoundRecord(NameA), b>>] :
             b \in RecordsOf(NameB) }

\* Deputy(...) of one item of the file (lines 86-138): the row, or << >> when
\* the conversion raises: best_match is None and None has no get
DeputyOf(item) ==
    IF item.has_best_match /\ item.best_match = None
    THEN << >>
    ELSE << [name |-> item.name,
             found |-> item.found,
             best_match_username |->
                 IF item.has_best_match THEN <<item.best_match[1].username>> ELSE None,
             best_match_url |->
                 IF item.has_best_match THEN <<item.best_match[1].url>> ELSE None,
             top_3_matches |-> item.top_3_matches,
             username_tested |-> << >>,
             username_to_test |-> << >>,
             verified_by_human |-> FALSE,
             human_verified_username |-> None,
             no_tiktok_account |-> FALSE] >>

\* the rows of the items of a file, in order (lines 82-140); << >> stands for
\* an exception: open or json.load fails, or an item is not converted
LoadDeputies(file) ==
    IF ~file.exists \/ ~file.parsable THEN << >>
    ELSE IF \E i \in 1..Len(file.data) : DeputyOf(file.data[i]) = << >> THEN << >>
    ELSE << [i \in 1..Len(file.data) |-> DeputyOf(file.data[i])[1]] >>

\* the statuses of the CSV, as texts
AucunCompte == <<"A","u","c","u","n">>

CompteVerifie == <<"C","o","m","p","t","e">>

\* the row export_verified_accounts writes for a deputy, if any (lines
\* 434-453); of its five cells the three that are read back: Nom, Username
\* TikTok, Statut
ExportRow(d) ==
    IF d.no_tiktok_account
    THEN << [Nom |-> d.name, Username |-> << >>, Statut |-> AucunCompte] >>
    ELSE IF d.human_verified_username # None /\ d.human_verified_username[1] # << >>
    THEN << [Nom |-> d.name, Username |-> d.human_verified_username[1],
             Statut |-> CompteVerifie] >>
    ELSE << >>

RECURSIVE ExportRows(_)
\* the rows of the verified deputies (lines 421-423 and 433-453), in the
\* order of the table, which is the order by name for the files above
ExportRows(rows) ==
    IF rows = << >> THEN << >>
    ELSE (IF Head(rows).verified_by_human THEN ExportRow(Head(rows)) ELSE << >>)
             \o ExportRows(Tail(rows))

\* db.query(Deputy).filter(Deputy.name == name).first(): the id, 0 for None
FirstByName(rows, name) ==
    IF \E i \in 1..Len(rows) : rows[i].name = name
    THEN CHOOSE i \in 1..Len(rows) :
             /\ rows[i].name = name
             /\ \A j \in 1..(i - 1) : rows[j].name # name
    ELSE 0

\* one row of the CSV applied to the table (lines 232-254)
ApplyVerification(rows, row) ==
    LET id == FirstByName(rows, row.Nom)
    IN  IF row.Nom = << >> \/ id = 0 THEN rows
        ELSE IF row.Statut = AucunCompte
        THEN [rows EXCEPT ![id].verified_by_human = TRUE,
                          ![id].no_tiktok_account = TRUE,
                          ![id].human_verified_username = None]
        ELSE IF row.Statut = CompteVerifie /\ row.Username # << >>
        THEN [rows EXCEPT ![id].verified_by_human = TRUE,
                          ![id].no_tiktok_account = FALSE,
                          ![id].human_verified_username = <<row.Username>>]
        ELSE rows

RECURSIVE ApplyVerifications(_, _)
\* all rows of the CSV, in order (lines 229-256)
ApplyVerifications(rows, csv) ==
    IF csv = << >> THEN rows
    ELSE ApplyVerifications(ApplyVerification(rows, Head(csv)), Tail(csv))

\* the table after initialize_with_verifications (lines 151-269): the table
\* is emptied and the commit is done before the file is opened, so a failing
\* load leaves no row; the rollback of line 268 cannot bring them back
InitializedWithVerifications(file, csv) ==
    IF LoadDeputies(file) = << >> THEN << >>
    ELSE IF ~csv.exists THEN LoadDeputies(file)[1]
    ELSE ApplyVerifications(LoadDeputies(file)[1], csv.data)

\* the process variables, which no request touches
procVars ==
    <<pc, deputy, unique_usernames, idx, candidates, candidates_with_subs,
      sorted_candidates, scores, confidences, best_candidate, top_3,
      result, bio_text, analysis, lookups, user_info>>

\* the ids of the requests: 3 is the id of no deputy
DeputyIds == {1, 2, 3}

\* the answer to a request
Answer(op, status, rows) == << [op |-> op, status |-> status, rows |-> rows] >>

\* the server starts on an empty table, with some result file
InitDb ==
    /\ pc = "serving"
    /\ db = << >>
    /\ results_file \in ResultFiles
    /\ response = << >>
    /\ deputy = NoDeputy
    /\ unique_usernames = << >>
    /\ idx = 1
    /\ candidates = << >>
    /\ candidates_with_subs = << >>
    /\ sorted_candidates = << >>
    /\ scores = << >>
    /\ confidences = << >>
    /\ best_candidate = 0
    /\ top_3 = << >>
    /\ result = << >>
    /\ bio_text = << >>
    /\ analysis = << >>
    /\ lookups = << >>
    /\ user_info = << >>

\* initialize_database without the test of the count (lines 76-79)
InitializeDatabaseAgain ==
    /\ pc = "serving"
    /\ IF LoadDeputies(results_file) = << >>
       THEN /\ db' = db
            /\ response' = Answer("initialize_database", "error", << >>)
       ELSE /\ db' = db \o LoadDeputies(results_file)[1]
            /\ response' = Answer("initialize_database", "ok", << >>)
    /\ UNCHANGED <<procVars, results_file>>

\* initialize_database (lines 71-148): nothing is done on a table with rows;
\* an exception of the load is answered after nothing was committed
InitializeDatabase ==
    /\ pc = "serving"
    /\ IF Len(db) > 0
       THEN /\ db' = db
            /\ response' = Answer("initialize_database", "already_initialized", << >>)
       ELSE IF LoadDeputies(results_file) = << >>
       THEN /\ db' = db
            /\ response' = Answer("initialize_database", "error", << >>)
       ELSE /\ db' = LoadDeputies(results_file)[1]
            /\ response' = Answer("initialize_database", "ok", << >>)
    /\ UNCHANGED <<procVars, results_file>>

\* the CSV of a sequence of rows
CsvOf(rows) == [exists |-> TRUE, parsable |-> TRUE, data |-> rows]

\* deputes_tiktok_verified.csv as initialize_with_verifications finds it: no
\* file, or the CSV export_verified_accounts gives for the table as it is
VerificationFiles == {NoFile, CsvOf(ExportRows(db))}

\* initialize_with_verifications (lines 151-269), csv being the file
\* deputes_tiktok_verified.csv
InitializeWithVerifications ==
    /\ pc = "serving"
    /\ \E csv \in VerificationFiles :
          db' = InitializedWithVerifications(results_file, csv)
    /\ response' = Answer("initialize_with_verifications",
                          IF LoadDeputies(results_file) = << >> THEN "error" ELSE "ok",
                          << >>)
    /\ UNCHANGED <<procVars, results_file>>

\* load_json_data of load_data.py (lines 11-97): the table is emptied, then
\* loaded; an exception of the load ends the script
LoadJsonData ==
    /\ pc = "serving"
    /\ db' = IF LoadDeputies(results_file) = << >> THEN << >>
             ELSE LoadDeputies(results_file)[1]
    /\ response' = Answer("load_json_data",
                          IF LoadDeputies(results_file) = << >> THEN "raised" ELSE "ok",
                          << >>)
    /\ UNCHANGED <<procVars, results_file>>

\* the bodies of the verify requests: VerificationUpdate
VerificationUpdates ==
    [verified_by_human : BOOLEAN,
     human_verified_username : {None, << <<"m">> >>},
     no_tiktok_account : {None, <<TRUE>>, <<FALSE>>}]

\* verify_deputy (lines 300-324)
VerifyDeputy ==
    /\ pc = "serving"
    /\ \E deputy_id \in DeputyIds, verification \in VerificationUpdates :
          IF deputy_id > Len(db)
          THEN /\ db' = db
               /\ response' = Answer("verify_deputy", "404", << >>)
          ELSE /\ db' =
                    [db EXCEPT
                       ![deputy_id].verified_by_human =
                           IF verification.no_tiktok_account = <<TRUE>> THEN TRUE
                           ELSE verification.verified_by_human,
                       ![deputy_id].human_verified_username =
                           IF verification.no_tiktok_account = <<TRUE>> THEN None
                           ELSE verification.human_verified_username,
                       ![deputy_id].no_tiktok_account =
                           IF verification.no_tiktok_account # None
                           THEN verification.no_tiktok_account[1]
                           ELSE @]
               /\ response' = Answer("verify_deputy", "ok", << >>)
    /\ UNCHANGED <<procVars, results_file>>

RECURSIVE AfterLastAt(_)
\* tiktok_url.split('@')[-1]
AfterLastAt(url) ==
    IF \E i \in 1..Len(url) : url[i] = "@"
    THEN AfterLastAt(SubSeq(url, 1 + (CHOOSE i \in 1..Len(url) : url[i] = "@"), Len(url)))
    ELSE url

RECURSIVE StripSlashes(_)
\* .strip('/')
StripSlashes(text) ==
    IF text # << >> /\ Head(text) = "/" THEN StripSlashes(Tail(text))
    ELSE IF text # << >> /\ text[Len(text)] = "/"
    THEN StripSlashes(SubSeq(text, 1, Len(text) - 1))
    ELSE text

\* the username add_manual_account takes from the URL (line 339)
ExtractUsername(url) == StripSlashes(AfterLastAt(url))

\* the URLs of the add-manual requests: with and without the address of the
\* site, with a slash at the end
ManualUrls == { TikTokUrl(<<"m">>) \o <<"/">>, <<"@","m">> }

\* manual_match (lines 342-357)
ManualMatch(username) ==
    [username |-> username, confidence |-> ONE, is_manual |-> TRUE]

\* add_manual_account (lines 327-377). top_3_matches is a plain JSON column
\* (models.py line 37) changed in place by append: the session is told of no
\* change of it, so the commit may write the row without the new list, and
\* the refresh of line 376 then reads the old one back. Both outcomes are
\* taken here, the stored one up to MaxMatches matches.
AddManualAccount ==
    /\ pc = "serving"
    /\ \E deputy_id \in DeputyIds, tiktok_url \in ManualUrls, stored \in BOOLEAN :
          IF deputy_id > Len(db)
          THEN /\ db' = db
               /\ response' = Answer("add_manual_account", "404", << >>)
          ELSE LET username == ExtractUsername(tiktok_url)
                   first    == db[deputy_id].best_match_username = None
                                  \/ db[deputy_id].best_match_username = << << >> >>
               IN  /\ stored => Len(db[deputy_id].top_3_matches) < MaxMatches
                   /\ db' =
                        [db EXCEPT
                           ![deputy_id].top_3_matches =
                               IF stored THEN Append(@, ManualMatch(username)) ELSE @,
                           ![deputy_id].verified_by_human = TRUE,
                           ![deputy_id].human_verified_username = <<username>>,
                           ![deputy_id].best_match_username =
                               IF first THEN <<username>> ELSE @,
                           ![deputy_id].best_match_url =
                               IF first THEN <<TikTokUrl(username)>> ELSE @,
                           ![deputy_id].found = IF first THEN TRUE ELSE @]
                   /\ response' = Answer("add_manual_account", "ok", << >>)
    /\ UNCHANGED <<procVars, results_file>>

\* the bodies of the usernames requests (UsernameUpdate), for the deputy 1 and
\* the id of no deputy: one list is given, the other left out
UsernameUpdates ==
    { [username_tested |-> << << <<"u">> >> >>, username_to_test |-> None],
      [username_tested |-> None, username_to_test |-> << << >> >>] }

\* update_usernames (lines 380-399)
UpdateUsernames ==
    /\ pc = "serving"
    /\ \E deputy_id \in {1, 3}, usernames \in UsernameUpdates :
          IF deputy_id > Len(db)
          THEN /\ db' = db
               /\ response' = Answer("update_usernames", "404", << >>)
          ELSE /\ db' =
                    [db EXCEPT
                       ![deputy_id].username_tested =
                           IF usernames.username_tested # None
                           THEN usernames.username_tested[1] ELSE @,
                       ![deputy_id].username_to_test =
                           IF usernames.username_to_test # None
                           THEN usernames.username_to_test[1] ELSE @]
               /\ response' = Answer("update_usernames", "ok", << >>)
    /\ UNCHANGED <<procVars, results_file>>

\* export_verified_accounts (lines 418-465): the CSV is the answer
ExportVerifiedAccounts ==
    /\ pc = "serving"
    /\ response' = Answer("export_verified_accounts", "ok", ExportRows(db))
    /\ UNCHANGED <<procVars, db, results_file>>

\* the files the ranking step writes (part2_find_tiktok.py lines 289-290):
\* found and not-found records only
WrittenFiles ==
    { f \in ResultFiles :
        /\ f.exists /\ f.parsable
        /\ \A i \in 1..Len(f.data) : f.data[i].has_best_match }

\* the ranking step is run again and replaces tiktok_results.json
WriteResultFile ==
    /\ pc = "serving"
    /\ results_file' \in WrittenFiles
    /\ UNCHANGED <<procVars, db, response>>

NextDb ==
    InitializeDatabase \/ WriteResultFile
        \/ InitializeWithVerifications
        \/ LoadJsonData \/ VerifyDeputy \/ AddManualAccount \/ UpdateUsernames
        \/ ExportVerifiedAccounts

SpecDb == InitDb /\ [][NextDb]_vars

(* ------------------------------ the claims ------------------------------ *)

Abs(x) == IF x < 0 THEN -x ELSE x

\* calculate_confidence has returned (SpecConf)
Returned == pc = "returned"

\* process_deputy has returned (Spec)
Done == pc = "done"

\* the confidence values of all candidates of the deputy
CandidateConfidences == [k \in 1..Len(candidates) |-> candidates[k].confidence]

\* the source list of the deputy a tag stands for
SourceList(tag) ==
    CASE tag = "twitter"   -> deputy.twitter_username
      [] tag = "websearch" -> deputy.websearch_username
      [] tag = "variant"   -> deputy.variant_username

\* C1 as stated: once the confidences are assigned, the confidences returned
\* by calculate_confidence, and the confidence values of all existing
\* candidates of the deputy, sum to at most 1.0.
C1_SumAtMostOne ==
    pc \in {"return", "done"} =>
        /\ SumSeq(confidences) <= ONE
        /\ SumSeq(CandidateConfidences) <= ONE

\* C1 (amended): the sums are at most 1.0 + epsilon, where epsilon is the
\* rounding of the equal split: at most half a unit in the last place for each
\* candidate after the first.
C1_SumAtMostOneEps ==
    pc \in {"return", "done"} =>
        /\ 2 * (SumSeq(confidences) - ONE) <= Len(confidences) - 1
        /\ SumSeq(CandidateConfidences) = SumSeq(confidences)
        /\ Len(confidences) = 1 => SumSeq(confidences) < ONE

\* a deputy with two ranked candidates and a zero-popularity one left at 0
C1_Witness ==
    /\ Done
    /\ Len(candidates) = 3
    /\ Len(confidences) = 2
    /\ \E k \in 1..3 : candidates[k].subscribers = 0 /\ candidates[k].confidence = 0
    /\ SumSeq(CandidateConfidences) = ONE

\* C2: calculate_confidence returns a sequence of the input's length (empty
\* for an empty input) and every value lies in [0, 1].
C2_LengthAndRange ==
    Returned =>
        /\ Len(confidences) = Len(scores)
        /\ \A i \in 1..Len(confidences) : 0 <= confidences[i] /\ confidences[i] <= ONE

C2_Witness ==
    /\ Returned
    /\ Len(scores) = 3
    /\ Len(confidences) = 3
    /\ scores[1] - scores[2] > 30

\* C3 as stated: with at least two distinct scores the top candidate's
\* confidence is at least the second candidate's.
C3_TopAtLeastSecond ==
    Returned /\ Len(scores) >= 2 /\ scores[1] # scores[Len(scores)] =>
        confidences[1] >= confidences[2]

\* C3 (amended): with at least two distinct scores and at least four
\* candidates the top candidate's confidence is at least the second's
\* (checked under SpecConfLong, whose arrays reach four scores and more).
C3_TopAtLeastSecondOfFour ==
    Returned /\ Len(scores) >= 4 /\ scores[1] # scores[Len(scores)] =>
        confidences[1] >= confidences[2]

\* four candidates, a narrow lead: the top is barely above the others
C3_Witness ==
    /\ Returned
    /\ Len(scores) = 4
    /\ scores[1] - scores[2] = 3
    /\ confidences[1] >= confidences[2]
    /\ confidences[1] - confidences[2] < 100

\* the array with the same best score and length whose second score is v
\* (the scores below v stay, the others drop to v, so it stays sorted)
WithSecond(s, v) == [i \in 1..Len(s) |-> IF i = 1 THEN s[1] ELSE Min(s[i], v)]

\* C4 as stated: with the best score and the number of candidates fixed,
\* confidence[0] strictly increases whenever the margin increases.
C4_StrictlyIncreasingInMargin ==
    Returned /\ Len(scores) >= 2 =>
        \A v \in RawScores :
            v < scores[2] =>
                CalculateConfidence(WithSecond(scores, v))[1] > confidences[1]

\* C4 (amended): confidence[0] strictly increases with the margin as long as
\* the smaller margin is below 30, and stays the same from a margin of 30 on.
C4_IncreasingUpToThirty ==
    Returned /\ Len(scores) >= 2 =>
        \A v \in RawScores :
            v < scores[2] =>
                IF scores[1] - scores[2] < 30
                THEN CalculateConfidence(WithSecond(scores, v))[1] > confidences[1]
                ELSE CalculateConfidence(WithSecond(scores, v))[1] = confidences[1]

\* a margin below 30 that a lower second score takes beyond 30
C4_Witness ==
    /\ Returned
    /\ Len(scores) >= 2
    /\ scores[1] - scores[2] < 30
    /\ scores[1] - scores[2] > 0
    /\ \E v \in RawScores :
          /\ v < scores[2]
          /\ scores[1] - v > 30
          /\ CalculateConfidence(WithSecond(scores, v))[1] > confidences[1]

\* C5: a single score gives one value, 0.30 + 0.65 * quality (up to the
\* rounding of the product), strictly between 0.30 and 0.95, and 0.625 for
\* the score 60.
C5_SingleCandidate ==
    Returned /\ Len(scores) = 1 =>
        /\ Len(confidences) = 1
        /\ Abs(20 * (confidences[1] - 3000) - 13 * QualityFactor(scores[1])) <= 10
        /\ 3000 < confidences[1] /\ confidences[1] < 9500
        /\ scores[1] = 60 => confidences[1] = 6250

C5_Witness ==
    /\ Returned
    /\ scores = <<60>>
    /\ confidences = <<6250>>

\* 300 * (0.70 * quality * min(margin / 30, 1)), exactly
ExactTopGain300(s) == 7 * QualityFactor(s[1]) * Min(s[1] - s[2], 30)

\* C6 as stated: with two or more scores, element 0 is
\* 0.25 + 0.70 * quality * min(margin / 30, 1) (up to the rounding of the
\* products) and lies strictly between 0.25 and 0.95.
C6_TopConfidenceOpenRange ==
    Returned /\ Len(scores) >= 2 =>
        /\ Abs(300 * (confidences[1] - 2500) - ExactTopGain300(scores)) <= 600
        /\ 2500 < confidences[1] /\ confidences[1] < 9500

\* C6 (amended): element 0 is 0.25 + 0.70 * quality * min(margin / 30, 1) and
\* lies in [0.25, 0.95): it is exactly 0.25 when the margin is 0 and above
\* 0.25 otherwise.
C6_TopConfidenceHalfOpenRange ==
    Returned /\ Len(scores) >= 2 =>
        /\ Abs(300 * (confidences[1] - 2500) - ExactTopGain300(scores)) <= 600
        /\ 2500 <= confidences[1] /\ confidences[1] < 9500
        /\ confidences[1] = 2500 <=> scores[1] = scores[2]

\* three candidates, the first two tied: the top gets the lower end 0.25
C6_Witness ==
    /\ Returned
    /\ Len(scores) = 3
    /\ scores[1] = scores[2]
    /\ scores[3] < scores[2]
    /\ confidences[1] = 2500

\* C7: with n >= 2 scores all candidates after the first get the same
\* confidence, (1 - top_confidence) / (n - 1) (up to the rounding of the
\* division), whatever their own scores.
C7_EqualSplit ==
    Returned /\ Len(scores) >= 2 =>
        \A i \in 2..Len(scores) :
            /\ confidences[i] = confidences[2]
            /\ 2 * Abs((Len(scores) - 1) * confidences[i] - (ONE - confidences[1]))
                   <= Len(scores) - 1

\* three candidates with three different scores, the last two share alike
C7_Witness ==
    /\ Returned
    /\ Len(scores) = 3
    /\ scores[1] > scores[2] /\ scores[2] > scores[3]
    /\ confidences[2] = confidences[3]
    /\ confidences[2] > 0

\* C8: when the two highest scores are equal the top candidate gets exactly
\* 0.25, however high the best score; of exactly two candidates the other
\* gets 0.75.
C8_TieGivesQuarter ==
    Returned /\ Len(scores) >= 2 /\ scores[1] = scores[2] =>
        /\ confidences[1] = 2500
        /\ Len(scores) = 2 => confidences[2] = 7500

\* the two highest possible scores, tied
C8_Witness ==
    /\ Returned
    /\ scores = <<170, 170>>
    /\ confidences = <<2500, 7500>>

\* C9 as stated: the merge deduplicates by case-normalized identifier: no two
\* merged identifiers differ only in letter case, and the provenance of a
\* merged identifier holds the source of every list in which it occurs in
\* some letter case.
C9_MergeIgnoresCase ==
    pc # "merge" =>
        /\ \A i, j \in 1..Len(unique_usernames) :
              Lower(unique_usernames[i].username) = Lower(unique_usernames[j].username)
                  => i = j
        /\ \A i \in 1..Len(unique_usernames) :
              \A t \in 1..3 :
                  (\E n \in 1..Len(SourceList(Sources[t])) :
                      Lower(SourceList(Sources[t])[n])
                          = Lower(unique_usernames[i].username))
                      => InSeq(Sources[t], unique_usernames[i].sources)

\* C10: the merged identifiers, and the candidates built from them, contain
\* each identifier string at most once and never the empty one; every
\* non-empty identifier of the lists is merged; a source tag is in the
\* provenance if and only if the identifier occurs in that source's list.
C10_UniqueIdentifiersExactProvenance ==
    /\ pc # "merge" =>
          /\ \A i, j \in 1..Len(unique_usernames) :
                unique_usernames[i].username = unique_usernames[j].username => i = j
          /\ \A i \in 1..Len(unique_usernames) :
                /\ unique_usernames[i].username # ""
                /\ \A t \in 1..3 :
                      InSeq(Sources[t], unique_usernames[i].sources)
                          <=> InSeq(unique_usernames[i].username, SourceList(Sources[t]))
          /\ \A t \in 1..3 :
                \A n \in 1..Len(SourceList(Sources[t])) :
                    SourceList(Sources[t])[n] # "" =>
                        \E i \in 1..Len(unique_usernames) :
                            unique_usernames[i].username = SourceList(Sources[t])[n]
    /\ \A k, l \in 1..Len(candidates) :
          candidates[k].username = candidates[l].username => k = l
    /\ \A k \in 1..Len(candidates) :
          /\ candidates[k].username # ""
          /\ \A t \in 1..3 :
                InSeq(Sources[t], candidates[k].source)
                    <=> InSeq(candidates[k].username, SourceList(Sources[t]))

\* a candidate proposed by two sources, next to an empty identifier in a list
C10_Witness ==
    /\ Done
    /\ \E k \in 1..Len(candidates) : Len(candidates[k].source) = 2
    /\ \E t \in 1..3 : InSeq("", SourceList(Sources[t]))

(* ------------------ the claims on the record of a deputy ---------------- *)

\* main has appended the record of the deputy (SpecMain, SpecWide)
Reported == pc = "reported"

\* the number of sources whose list holds the identifier
DistinctSources(username) ==
    Cardinality({ t \in 1..3 : InSeq(username, SourceList(Sources[t])) })

\* s holds no element twice
NoRepeat(s) == \A m, n \in 1..Len(s) : s[m] = s[n] => m = n

\* C11 as stated: each source tag appears at most once in candidate.source,
\* and the num_sources reported for the best match and for every top-3 entry
\* is the number of distinct sources that proposed the identifier, at most 3.
C11_ProvenanceIsSet ==
    /\ \A k \in 1..Len(candidates) : NoRepeat(candidates[k].source)
    /\ (Reported /\ result[1].found) =>
          /\ result[1].best_match[1].num_sources
                 = DistinctSources(result[1].best_match[1].username)
          /\ result[1].best_match[1].num_sources <= 3
          /\ \A i \in 1..Len(result[1].top_3_matches) :
                /\ result[1].top_3_matches[i].num_sources
                       = DistinctSources(result[1].top_3_matches[i].username)
                /\ result[1].top_3_matches[i].num_sources <= 3

\* the lookup of the i-th merged identifier got no profile: HEAD status not
\* 200 or request exception, or empty profile info
Failed(i) == ~lookups[i]

\* the candidate k is the one of the i-th merged identifier
CandidateOf(k, i) == candidates[k].username = unique_usernames[i].username

\* C12: every merged identifier is looked up, whatever the lookups before it
\* answered; an identifier whose lookup failed is no candidate, is not the
\* best, is not in the shortlist and is not in the record of the deputy; the
\* others are candidates, and those with subscribers are all ranked.
C12_FailedLookupExcluded ==
    /\ Len(lookups) = idx - 1
    /\ pc \notin {"merge", "lookup"} => Len(lookups) = Len(unique_usernames)
    /\ \A i \in 1..Len(lookups) :
          IF Failed(i)
          THEN /\ \A k \in 1..Len(candidates) : ~CandidateOf(k, i)
               /\ best_candidate # 0 => ~CandidateOf(best_candidate, i)
               /\ \A j \in 1..Len(top_3) : ~CandidateOf(top_3[j], i)
               /\ (Reported /\ result[1].found) =>
                     /\ result[1].best_match[1].username # unique_usernames[i].username
                     /\ \A j \in 1..Len(result[1].top_3_matches) :
                           result[1].top_3_matches[j].username
                               # unique_usernames[i].username
          ELSE \E k \in 1..Len(candidates) : CandidateOf(k, i)
    /\ (pc \in {"done", "reported"} /\ candidates_with_subs # << >>) =>
          \A k \in 1..Len(candidates) :
              candidates[k].subscribers >= 1 => InSeq(k, sorted_candidates)

\* the lookup of the first identifier fails, the second is looked up all the
\* same and is the best match of the record
C12_Witness ==
    /\ Reported
    /\ Len(lookups) = 2
    /\ Failed(1)
    /\ ~Failed(2)
    /\ result[1].found
    /\ result[1].best_match[1].username = unique_usernames[2].username

\* C13: with no merged identifier, or with every lookup false, process_deputy
\* returns (None, []) and the record has found false, no best match and an
\* empty top 3; otherwise the record has found true and a best match.
C13_NotFoundIffNoCandidate ==
    Reported =>
        IF unique_usernames = << >> \/ \A i \in 1..Len(lookups) : Failed(i)
        THEN /\ best_candidate = 0
             /\ top_3 = << >>
             /\ result[1].found = FALSE
             /\ result[1].best_match = None
             /\ result[1].top_3_matches = << >>
        ELSE /\ best_candidate # 0
             /\ top_3 # << >>
             /\ result[1].found = TRUE
             /\ result[1].best_match # None
             /\ result[1].top_3_matches # << >>

\* two identifiers, both lookups false
C13_Witness ==
    /\ Reported
    /\ Len(lookups) = 2
    /\ Failed(1) /\ Failed(2)
    /\ result[1].found = FALSE

\* C14: with candidates of which none has subscribers >= 1, the best is the
\* candidate of the first identifier whose lookup succeeded, the shortlist is
\* that candidate alone, the scorer and calculate_confidence did not run and
\* the raw_score and confidence of the best are 0, in the record too.
C14_FallbackFirstCandidate ==
    (pc \in {"done", "reported"} /\ candidates # << >>
        /\ \A k \in 1..Len(candidates) : candidates[k].subscribers < 1) =>
        /\ best_candidate = 1
        /\ top_3 = <<1>>
        /\ \A i \in 1..Len(lookups) :
              (~Failed(i) /\ \A j \in 1..(i - 1) : Failed(j)) =>
                  CandidateOf(best_candidate, i)
        /\ candidates[best_candidate].raw_score = 0
        /\ candidates[best_candidate].confidence = 0
        /\ scores = << >>
        /\ confidences = << >>
        /\ Reported =>
              /\ result[1].found
              /\ result[1].best_match[1].username = candidates[1].username
              /\ result[1].best_match[1].raw_score = 0
              /\ result[1].best_match[1].confidence = 0
              /\ Len(result[1].top_3_matches) = 1
              /\ result[1].top_3_matches[1].username = candidates[1].username

\* two candidates without subscribers
C14_Witness ==
    /\ Reported
    /\ Len(candidates) = 2
    /\ candidates[1].subscribers = 0 /\ candidates[2].subscribers = 0
    /\ result[1].best_match[1].username = candidates[1].username

\* the candidates with subscribers >= 1
Popular == { k \in 1..Len(candidates) : candidates[k].subscribers >= 1 }

\* C15: with a candidate of subscribers >= 1, the shortlist holds only
\* candidates with subscribers >= 1, each once, by non-increasing raw_score;
\* its length is min(3, number of such candidates); the best is its first
\* element and no candidate with subscribers >= 1 has a higher raw_score.
C15_ShortlistTopThree ==
    (pc \in {"done", "reported"} /\ Popular # {}) =>
        /\ \A j \in 1..Len(top_3) : top_3[j] \in Popular
        /\ NoRepeat(top_3)
        /\ \A j \in 1..(Len(top_3) - 1) :
              candidates[top_3[j]].raw_score >= candidates[top_3[j + 1]].raw_score
        /\ Len(top_3) = Min(3, Cardinality(Popular))
        /\ best_candidate = top_3[1]
        /\ \A k \in Popular :
              /\ candidates[best_candidate].raw_score >= candidates[k].raw_score
              /\ InSeq(k, top_3) \/
                    \A j \in 1..Len(top_3) :
                        candidates[top_3[j]].raw_score >= candidates[k].raw_score
        /\ Reported =>
              /\ result[1].best_match[1].username = candidates[best_candidate].username
              /\ Len(result[1].top_3_matches) = Len(top_3)
              /\ \A j \in 1..Len(top_3) :
                    /\ result[1].top_3_matches[j].username = candidates[top_3[j]].username
                    /\ result[1].top_3_matches[j].subscribers >= 1

\* four candidates, three with subscribers and one without in second place;
\* the candidate discovered last has the highest raw_score
C15_Witness ==
    /\ Reported
    /\ Len(candidates) = 4
    /\ Cardinality(Popular) = 3
    /\ candidates[2].subscribers = 0
    /\ best_candidate = 4
    /\ candidates[1].raw_score < candidates[3].raw_score

\* the three source lists of the deputy, one after the other
AllLists ==
    deputy.twitter_username \o deputy.websearch_username \o deputy.variant_username

\* the place of the first occurrence of the identifier in the lists
FirstSeen(username) ==
    CHOOSE n \in 1..Len(AllLists) :
        /\ AllLists[n] = username
        /\ \A m \in 1..(n - 1) : AllLists[m] # username

\* the place of the candidate k in the ranking
Rank(k) == CHOOSE a \in 1..Len(sorted_candidates) : sorted_candidates[a] = k

\* C16: the merged identifiers, and the candidates, are in the order of their
\* first occurrence in the lists twitter, websearch, variant; candidates of
\* equal raw_score are ranked in that order, and the best is the one
\* discovered first among the candidates of the top raw_score.
C16_TiesInDiscoveryOrder ==
    /\ pc # "merge" =>
          \A i, j \in 1..Len(unique_usernames) :
              i < j => FirstSeen(unique_usernames[i].username)
                          < FirstSeen(unique_usernames[j].username)
    /\ \A k, l \in 1..Len(candidates) :
          k < l => FirstSeen(candidates[k].username) < FirstSeen(candidates[l].username)
    /\ pc \in {"confidence", "return", "done", "reported"} =>
          \A k, l \in Popular :
              (candidates[k].raw_score = candidates[l].raw_score
                  /\ FirstSeen(candidates[k].username) < FirstSeen(candidates[l].username))
                  => Rank(k) < Rank(l)
    /\ (pc \in {"done", "reported"} /\ Popular # {}) =>
          \A k \in Popular :
              candidates[k].raw_score = candidates[best_candidate].raw_score
                  => FirstSeen(candidates[best_candidate].username)
                         <= FirstSeen(candidates[k].username)

\* two candidates of equal raw_score, "b" from the twitter list and "a" from
\* the websearch list: "b" is the best
C16_Witness ==
    /\ Reported
    /\ deputy.twitter_username = <<"b">>
    /\ deputy.websearch_username = <<"a">>
    /\ Len(candidates) = 2
    /\ candidates[1].raw_score = candidates[2].raw_score
    /\ candidates[1].raw_score > 0
    /\ result[1].best_match[1].username = "b"

(* ---------------------- the claims on the raw score --------------------- *)

\* calculate_raw_score has returned (SpecScore)
Scored == pc = "scored"

\* the popularity tiers: <<threshold, bonus>>
Tiers == << <<100000, 100>>, <<10000, 50>>, <<1000, 25>>, <<100, 5>>, <<1, 2>> >>

\* the bonus of the one tier that applies: the highest threshold reached
TierBonus(p) ==
    IF \A t \in 1..Len(Tiers) : p < Tiers[t][1] THEN 0
    ELSE LET t == CHOOSE t \in 1..Len(Tiers) :
                      /\ Tiers[t][1] <= p
                      /\ \A u \in 1..Len(Tiers) :
                            Tiers[u][1] <= p => Tiers[u][1] <= Tiers[t][1]
         IN  Tiers[t][2]

\* 1 for a flag that is set, 0 otherwise
Flag(b) == IF b THEN 1 ELSE 0

\* C17: the raw score is a natural number: the bonus of the one popularity
\* tier that applies plus, only if a bio analysis is present and found, 10 for
\* mentions_depute, 5 for mentions_assemblee, 5 for mentions_party and 50 for
\* verified; without a found bio analysis it is the tier bonus alone.
C17_RawScoreFormula ==
    Scored =>
        LET c   == candidates[1]
            bio == c.bio_analysis
        IN  /\ c.raw_score \in Nat
            /\ (bio = None \/ ~bio[1].bio_found) =>
                   c.raw_score = TierBonus(c.subscribers)
            /\ (bio # None /\ bio[1].bio_found) =>
                   c.raw_score = TierBonus(c.subscribers)
                       + 10 * Flag(bio[1].mentions_depute)
                       + 5 * Flag(bio[1].mentions_assemblee)
                       + 5 * Flag(bio[1].mentions_party)
                       + 50 * Flag(bio[1].verified)

\* a verified account with every mention but bio_found false, in the highest
\* tier: the score is 100
C17_Witness ==
    /\ Scored
    /\ candidates[1].subscribers = 100000
    /\ candidates[1].bio_analysis # None
    /\ ~candidates[1].bio_analysis[1].bio_found
    /\ candidates[1].bio_analysis[1].verified
    /\ candidates[1].bio_analysis[1].mentions_depute
    /\ candidates[1].raw_score = 100

\* C18: with the same bio analysis, no larger follower count gives a smaller
\* raw score and no smaller follower count a larger one.
C18_MonotoneInSubscribers ==
    Scored =>
        \A p \in ScoreFollowers :
            LET other == CalculateRawScore([candidates[1] EXCEPT !.subscribers = p])
            IN  /\ p >= candidates[1].subscribers => other >= candidates[1].raw_score
                /\ p <= candidates[1].subscribers => other <= candidates[1].raw_score

\* 999 followers and a found bio: one follower more raises the score
C18_Witness ==
    /\ Scored
    /\ candidates[1].subscribers = 999
    /\ candidates[1].bio_analysis # None
    /\ candidates[1].bio_analysis[1].bio_found
    /\ CalculateRawScore([candidates[1] EXCEPT !.subscribers = 1000])
           > candidates[1].raw_score

(* ---------------------- the claims on the bio analysis ------------------ *)

\* analyze_bio_keywords has returned (SpecBio)
KeywordsReturned == pc = "keywords_returned"

\* analyze_tiktok_bio has returned (SpecBio)
BioReturned == pc = "bio_returned"

\* C19: whenever analyze_bio_keywords returns mentions_assemblee true, it
\* returns mentions_depute true; so does the BioAnalysis analyze_tiktok_bio
\* builds from it.
C19_AssembleeImpliesDepute ==
    (KeywordsReturned \/ BioReturned) =>
        (analysis[1].mentions_assemblee => analysis[1].mentions_depute)

\* "Assemblee" with its accent and no keyword of the role: both flags are set
C19_Witness ==
    /\ KeywordsReturned
    /\ bio_text = <<"A","s","s","e","m","b","l","e_acute","e">>
    /\ analysis[1].mentions_assemblee
    /\ analysis[1].mentions_depute

\* every keyword of the four lists
AllKeywords ==
    { depute_keywords[n] : n \in 1..Len(depute_keywords) }
        \cup { assemblee_keywords[n] : n \in 1..Len(assemblee_keywords) }
        \cup UNION { { parties[p][2][n] : n \in 1..Len(parties[p][2]) } :
                     p \in 1..Len(parties) }
        \cup { region_keywords[n] : n \in 1..Len(region_keywords) }

\* the four flags are false and the party name is absent
AllFalse(a) ==
    /\ ~a.mentions_depute
    /\ ~a.mentions_party
    /\ ~a.mentions_region
    /\ ~a.mentions_assemblee
    /\ a.party_name = None

\* C20: analyze_bio_keywords returns the four flags false and no party name
\* for the empty text and for a text whose normal form contains no keyword;
\* analyze_tiktok_bio returns a BioAnalysis with bio_found false, the four
\* flags false and no party name when the fetch raises, yields {} or yields
\* no text.
C20_AllFalseDefault ==
    /\ KeywordsReturned =>
          ((bio_text = << >>
               \/ \A kw \in AllKeywords : ~Contains(NormalizeString(bio_text), kw))
              => AllFalse(analysis[1]))
    /\ BioReturned =>
          ((user_info[1].raised \/ ~user_info[1].found \/ user_info[1].bio = << >>)
              => /\ AllFalse(analysis[1])
                 /\ ~analysis[1].bio_found
                 /\ analysis[1].bio_text = << >>)

\* the page of a verified account is fetched, its signature is too short to
\* be taken as a bio: bio_found is false
C20_Witness ==
    /\ BioReturned
    /\ bio_text = <<"P","S">>
    /\ user_info[1].found
    /\ user_info[1].bio = << >>
    /\ user_info[1].verified
    /\ ~analysis[1].bio_found
    /\ AllFalse(analysis[1])

\* the declared order of the parties
PartyOrder ==
    <<"LFI", "Renaissance", "RN", "LR", "PS", "EELV", "PCF", "Modem", "Horizons", "UDI">>

\* a keyword of the n-th party occurs in the normalized text
PartyOccurs(n, text) ==
    \E k \in 1..Len(parties[n][2]) : Contains(NormalizeString(text), parties[n][2][k])

\* C21: analyze_bio_keywords returns mentions_party true exactly when it
\* returns a party name; the name is that of the first party, in the order
\* LFI, Renaissance, RN, LR, PS, EELV, PCF, Modem, Horizons, UDI, of which a
\* keyword occurs in the normalized text, and is absent when none does.
C21_FirstDeclaredParty ==
    /\ Len(parties) = Len(PartyOrder)
    /\ \A n \in 1..Len(parties) : parties[n][1] = PartyOrder[n]
    /\ KeywordsReturned =>
          /\ analysis[1].mentions_party <=> analysis[1].party_name # None
          /\ analysis[1].party_name = None =>
                \A n \in 1..Len(PartyOrder) : ~PartyOccurs(n, bio_text)
          /\ analysis[1].party_name # None =>
                \E n \in 1..Len(PartyOrder) :
                    /\ analysis[1].party_name = <<PartyOrder[n]>>
                    /\ PartyOccurs(n, bio_text)
                    /\ \A m \in 1..(n - 1) : ~PartyOccurs(m, bio_text)

\* "PSLR": the keywords of PS and of LR occur, PS first in the text; LR is
\* declared first and is the party returned
C21_Witness ==
    /\ KeywordsReturned
    /\ bio_text = <<"P","S","L","R">>
    /\ analysis[1].mentions_party
    /\ analysis[1].party_name = <<"LR">>

\* normalize_string has returned (SpecBio)
Normalized == pc = "normalized"

\* C22: normalize_string gives its own results back unchanged, and a result
\* holds no capital letter, no accented or other non-ASCII character and no
\* whitespace at either end.
C22_NormalizeIdempotent ==
    Normalized =>
        /\ NormalizeString(analysis[1]) = analysis[1]
        /\ \A i \in 1..Len(analysis[1]) :
              /\ ~\E u \in 1..Len(UpperChars) : analysis[1][i] = UpperChars[u]
              /\ analysis[1][i] \notin {"e_acute", "E_acute", "euro", "nbsp"}
        /\ analysis[1] # << >> =>
              /\ analysis[1][1] \notin Whitespace
              /\ analysis[1][Len(analysis[1])] \notin Whitespace

\* the euro sign, then a space, then "Depute" with its accents: the result
\* is "depute"
C22_Witness ==
    /\ Normalized
    /\ bio_text = <<"euro", " ", "D","e_acute","p","u","t","e_acute">>
    /\ analysis[1] = <<"d","e","p","u","t","e">>

(* ------------------- the claims on the order of the phases -------------- *)

\* the phases of one run, in the order of the code
Phases ==
    <<"merge", "lookup", "partition", "score", "sort", "confidence", "return",
      "done", "reported">>

PhaseOf(p) == CHOOSE n \in 1..Len(Phases) : Phases[n] = p

\* from the sort on, every candidate with subscribers has its raw score
RawScoresAssigned ==
    \A k \in Popular : candidates[k].raw_score = CalculateRawScore(candidates[k])

\* the confidences are those of the raw scores in sorted order, the i-th one
\* is on the i-th candidate of the sorted order, and the best is the first of
\* them and has the top confidence, confidences[0]
ConfidencesBySortedPosition ==
    /\ Len(sorted_candidates) = Cardinality(Popular)
    /\ \A i \in 1..Len(sorted_candidates) :
          /\ sorted_candidates[i] \in Popular
          /\ scores[i] = candidates[sorted_candidates[i]].raw_score
          /\ candidates[sorted_candidates[i]].confidence = confidences[i]
    /\ \A i \in 1..(Len(scores) - 1) : scores[i] >= scores[i + 1]
    /\ confidences = CalculateConfidence(scores)
    /\ best_candidate # 0 =>
          /\ best_candidate = sorted_candidates[1]
          /\ candidates[best_candidate].confidence = confidences[1]
          /\ \A k \in Popular :
                candidates[best_candidate].raw_score >= candidates[k].raw_score

\* C24: a run never goes back to an earlier phase and enters score, sort,
\* confidence in this order; from the sort on every candidate with
\* subscribers >= 1 has its raw score; once the confidences are assigned they
\* are calculate_confidence of the sorted raw scores, the i-th confidence is
\* on the i-th candidate of the sorted order and the best candidate has
\* confidences[0]; no raw score changes from the sort on.
C24_PhasesInOrder ==
    /\ [](/\ pc \in {"sort", "confidence", "return"} => RawScoresAssigned
          /\ (pc \in {"done", "reported"} /\ Popular # {}) => RawScoresAssigned
          /\ pc = "return" => ConfidencesBySortedPosition
          /\ (pc \in {"done", "reported"} /\ Popular # {})
                => ConfidencesBySortedPosition)
    /\ [][/\ PhaseOf(pc') >= PhaseOf(pc)
          /\ pc' = "sort" => pc = "score"
          /\ pc' = "confidence" => pc = "sort"
          /\ pc' = "return" => pc = "confidence"
          /\ pc' = "score" => pc = "partition"
          /\ pc \in {"sort", "confidence", "return", "done"} =>
                /\ Len(candidates') = Len(candidates)
                /\ \A k \in 1..Len(candidates) :
                      candidates'[k].raw_score = candidates[k].raw_score]_vars

\* two candidates with subscribers, the one discovered second has the higher
\* raw score, is the best and has confidences[0], the other confidences[1]
C24_Witness ==
    /\ Reported
    /\ Len(candidates) = 2
    /\ candidates[2].raw_score > candidates[1].raw_score
    /\ candidates[1].raw_score > 0
    /\ best_candidate = 2
    /\ candidates[2].confidence = confidences[1]
    /\ candidates[1].confidence = confidences[2]
    /\ confidences[1] # confidences[2]

(* ---------------- the claims on the verification database ---------------- *)

\* the last request was answered by op
Answered(op) == response # << >> /\ response[1].op = op

\* the step is the request op: every request leaves the result file alone and
\* answers under its own name
Requested(op) ==
    /\ results_file' = results_file
    /\ response' # << >>
    /\ response'[1].op = op

\* the three loaders of tiktok_results.json
Loaders == {"initialize_database", "initialize_with_verifications", "load_json_data"}

\* the records of the file that the ranking step writes for a deputy it did
\* not find: best_match null, no match, found false
NotFoundItems ==
    { i \in 1..Len(results_file.data) :
        /\ results_file.data[i].has_best_match
        /\ results_file.data[i].best_match = None
        /\ results_file.data[i].top_3_matches = << >>
        /\ ~results_file.data[i].found }

\* the table has a row for the item, not found and without best match
StoredNotFound(item) ==
    \E k \in 1..Len(db) :
        /\ db[k].name = item.name
        /\ ~db[k].found
        /\ db[k].best_match_username = None
        /\ db[k].best_match_url = None

\* a loader has just read the file as it is now
LoaderRan ==
    /\ response # << >>
    /\ response[1].op \in Loaders
    /\ response[1].status # "already_initialized"
    /\ db = IF LoadDeputies(results_file) = << >> THEN << >>
            ELSE LoadDeputies(results_file)[1]

\* C23 as stated: a loader that has read a result file with records of the
\* ranking step, a not-found record among them, has succeeded and has stored
\* that deputy with found false and no best match.
C23_LoadersAcceptNotFound ==
    (/\ LoaderRan
     /\ results_file \in WrittenFiles
     /\ NotFoundItems # {})
        => /\ response[1].status = "ok"
           /\ \A i \in NotFoundItems : StoredNotFound(results_file.data[i])

\* the request add_manual_account(deputy_id, tiktok_url) took the table from
\* rows to after as C25 says
ManualAccountAdded(rows, after, deputy_id, tiktok_url) ==
    LET username == ExtractUsername(tiktok_url)
        before   == rows[deputy_id]
    IN  /\ Len(after) = Len(rows)
        /\ \A k \in 1..Len(rows) : k # deputy_id => after[k] = rows[k]
        /\ after[deputy_id].verified_by_human
        /\ after[deputy_id].human_verified_username = <<username>>
        /\ after[deputy_id].top_3_matches
               = Append(before.top_3_matches, ManualMatch(username))
        /\ after[deputy_id].top_3_matches[Len(before.top_3_matches) + 1].confidence = ONE
        /\ IF before.best_match_username = None
           THEN /\ after[deputy_id].best_match_username = <<username>>
                /\ after[deputy_id].best_match_url = <<TikTokUrl(username)>>
                /\ after[deputy_id].found
           ELSE /\ after[deputy_id].best_match_username = before.best_match_username
                /\ after[deputy_id].best_match_url = before.best_match_url
                /\ after[deputy_id].found = before.found

\* C25 as stated: add_manual_account on an existing deputy sets
\* verified_by_human, sets human_verified_username to the username of the
\* URL, appends a manual match of confidence 1.0 to top_3_matches, and sets
\* best_match_username, best_match_url and found only if there was no best
\* match; on the id of no deputy it answers 404 and changes nothing.
C25_ManualAccountAdded ==
    [][Requested("add_manual_account")
          => IF response'[1].status = "404" THEN db' = db
             ELSE \E deputy_id \in 1..Len(db), tiktok_url \in ManualUrls :
                      ManualAccountAdded(db, db', deputy_id, tiktok_url)]_vars

\* C26: on a table with at least one row, initialize_database answers
\* already-initialized and leaves every stored deputy as it was, the human
\* verification fields included, however often it is called.
C26_InitializeOnce ==
    [][(Requested("initialize_database") /\ Len(db) > 0)
          => /\ response'[1].status = "already_initialized"
             /\ db' = db]_vars

\* initialize_database has answered already-initialized on a table with a
\* deputy verified by a human, whose result file would load
C26_Witness ==
    /\ Answered("initialize_database")
    /\ response[1].status = "already_initialized"
    /\ LoadDeputies(results_file) # << >>
    /\ \E k \in 1..Len(db) :
          /\ db[k].verified_by_human
          /\ db[k].human_verified_username = << <<"m">> >>

\* the rows of the export with the name of the deputy
RowsOf(rows, name) == { i \in 1..Len(rows) : rows[i].Nom = name }

\* C27 as stated: in the export, each deputy with verified_by_human has
\* exactly one row, of status 'Aucun compte TikTok' or 'Compte verifie', and
\* no deputy without it has a row.
C27_ExportAllVerified ==
    Answered("export_verified_accounts")
        => \A k \in 1..Len(db) :
              IF db[k].verified_by_human
              THEN /\ Cardinality(RowsOf(response[1].rows, db[k].name)) = 1
                   /\ \A i \in RowsOf(response[1].rows, db[k].name) :
                         response[1].rows[i].Statut \in {AucunCompte, CompteVerifie}
              ELSE RowsOf(response[1].rows, db[k].name) = {}

\* C28 as stated: a deputy with no_tiktok_account is verified by a human and
\* has no human-verified username.
C28_NoAccountIsVerifiedWithoutUsername ==
    \A k \in 1..Len(db) :
        db[k].no_tiktok_account
            => /\ db[k].verified_by_human
               /\ db[k].human_verified_username = None

\* the verification fields of a deputy
Verification(d) ==
    <<d.verified_by_human, d.no_tiktok_account, d.human_verified_username>>

\* C29 as stated: when initialize_with_verifications reads the CSV that
\* export_verified_accounts gives for the table, over the result file the
\* table was loaded from, every deputy ends with the verified_by_human,
\* no_tiktok_account and human_verified_username it had at the export.
C29_ExportImportRoundTrip ==
    [][(/\ Len(db) > 0
        /\ LoadDeputies(results_file) # << >>
        /\ Len(LoadDeputies(results_file)[1]) = Len(db)
        /\ \A k \in 1..Len(db) : LoadDeputies(results_file)[1][k].name = db[k].name
        /\ Requested("initialize_with_verifications")
        /\ db' = InitializedWithVerifications(results_file, CsvOf(ExportRows(db))))
          => /\ Len(db') = Len(db)
             /\ \A k \in 1..Len(db) :
                   /\ db'[k].name = db[k].name
                   /\ Verification(db'[k]) = Verification(db[k])]_vars

\* C30 as stated: when initialize_with_verifications fails on the result
\* file, the table is as it was before the call.
C30_FailedLoadKeepsDatabase ==
    [][(/\ Requested("initialize_with_verifications")
        /\ response'[1].status = "error")
          => db' = db]_vars

====
